---- MODULE Spec2Model ----
(***************************************************************************)
(* Model of the fastecc C++ wrapper over FourQ: Curve::FourQ::Scalar,      *)
(* Curve::FourQ::Point and the SchnorrQSign / SchnorrQVerify templates.    *)
(*                                                                         *)
(* The wrapper (fourq.hpp / fourq.cpp) is translated operation by          *)
(* operation.  The FourQlib backend it links against is not part of the    *)
(* wrapper sources; it is modelled from the interface description as a     *)
(* small twisted Edwards curve  -x^2 + y^2 = 1 + d x^2 y^2  over GF(29)    *)
(* whose group has order 4 * 7, so that the prime-order subgroup, the      *)
(* cofactor, off-curve encodings and projective representations all exist  *)
(* at a size TLC can enumerate.                                            *)
(***************************************************************************)
EXTENDS Integers, Sequences, FiniteSets, TLC

(***************************************************************************)
(* Program constants                                                       *)
(***************************************************************************)
ECC_KEY_LENGTH == 32
NWORDS_ORDER == 4
SIG_LENGTH == 64

\* bytes in one digit_t (the _M64 union has b0..b7)
DIGIT_BYTES == ECC_KEY_LENGTH \div NWORDS_ORDER

(***************************************************************************)
(* Backend parameters, scaled.  In FourQ the field is GF((2^127-1)^2) and  *)
(* curve_order is a 246-bit prime; here the field is GF(29), d = 2 and the *)
(* prime subgroup order is 7.                                              *)
(***************************************************************************)
FIELD_P == 29
CURVE_D == 2
curve_order == 7
GENERATOR_X == 2
GENERATOR_Y == 22

L == curve_order

\* Scalar(uint32_t) takes any 32-bit value and 2^32 < curve_order in the
\* program; the scaled uint32_t range keeps that relation.
UINT32_MAX == L - 1

\* (unsigned int) conversion of size_t, scaled to a 1-bit unsigned int
UINT_MOD == 2

ECCRYPTO_SUCCESS == 1
ECCRYPTO_ERROR == 0

(***************************************************************************)
(* Bounds of the model                                                     *)
(***************************************************************************)
\* additions applied to the Point object since it was last set from affine
MaxAdds == 1
\* longest message handed to SchnorrQSign / SchnorrQVerify
MaxMsgLen == 2
\* bit flips the caller applies to a signature buffer
MaxFlips == 1

Slots == 1..2

(***************************************************************************)
(* Byte and word helpers.  A digit_t is kept as its memory image, eight    *)
(* bytes, least significant first (the layout the _M64 union relies on).   *)
(***************************************************************************)
RECURSIVE Zeros(_)
Zeros(n) == IF n = 0 THEN <<>> ELSE <<0>> \o Zeros(n - 1)

ZeroDigit == Zeros(DIGIT_BYTES)
ZeroBytes == Zeros(ECC_KEY_LENGTH)
MiddleZeros == Zeros(ECC_KEY_LENGTH - 2)
HighZeros == Zeros(ECC_KEY_LENGTH - 1)

\* the digit_t holding the small non-negative integer v (v < 2^31)
DigitOf(v) ==
    <<v % 256, (v \div 256) % 256, (v \div 65536) % 256, (v \div 16777216) % 256>>
        \o Zeros(DIGIT_BYTES - 4)

RECURSIVE ZeroWords(_)
ZeroWords(n) == IF n = 0 THEN <<>> ELSE <<ZeroDigit>> \o ZeroWords(n - 1)

HighZeroWords == ZeroWords(NWORDS_ORDER - 1)

\* fourq_scalar_t holding the small integer v
WordsOfInt(v) == <<DigitOf(v)>> \o HighZeroWords

\* an EccDataType whose first byte is lo and last byte is hi
BytesOf(lo, hi) == <<lo>> \o MiddleZeros \o <<hi>>

\* memory image of a fourq_scalar_t: its digits one after the other
RECURSIVE MemBytesFrom(_, _)
MemBytesFrom(w, i) ==
    IF i > NWORDS_ORDER THEN <<>> ELSE w[i] \o MemBytesFrom(w, i + 1)

MemBytes(w) == MemBytesFrom(w, 1)

RECURSIVE HornerModL(_, _)
HornerModL(b, k) ==
    IF k > ECC_KEY_LENGTH THEN 0
    ELSE (b[k] + 256 * HornerModL(b, k + 1)) % L

\* numeric value of a little-endian 256-bit integer, modulo the order
ValModL(w) ==
    LET b == MemBytes(w)
    IN  IF SubSeq(b, 2, ECC_KEY_LENGTH) = HighZeros THEN b[1] % L
        ELSE HornerModL(b, 1)

\* TRUE iff the 256-bit integer w is exactly v, for a small v
IsInt(w, v) == w = WordsOfInt(v)

\* TRUE iff the 256-bit integer w lies in [0, L)
InRange(w) == \E v \in 0..(L - 1) : IsInt(w, v)

\* memcmp over two equally long byte arrays: -1, 0 or 1
RECURSIVE memcmp(_, _, _)
memcmp(a, b, k) ==
    IF k > Len(a) THEN 0
    ELSE IF a[k] < b[k] THEN -1
    ELSE IF a[k] > b[k] THEN 1
    ELSE memcmp(a, b, k + 1)

(***************************************************************************)
(* Backend: arithmetic modulo the group order                              *)
(***************************************************************************)
RECURSIVE PowMod(_, _, _)
PowMod(a, e, m) == IF e = 0 THEN 1 % m ELSE (a * PowMod(a, e - 1, m)) % m

InvModL(a) == PowMod(a % L, L - 2, L)

\* Montgomery constant R = 2^256 mod L
Montgomery_R == PowMod(256, ECC_KEY_LENGTH, L)

modulo_order(a) == WordsOfInt(ValModL(a))

add_mod_order(a, b) == WordsOfInt((ValModL(a) + ValModL(b)) % L)

subtract_mod_order(a, b) == WordsOfInt((ValModL(a) + L - ValModL(b)) % L)

to_Montgomery(a) == WordsOfInt((ValModL(a) * Montgomery_R) % L)

from_Montgomery(ma) == WordsOfInt((ValModL(ma) * InvModL(Montgomery_R)) % L)

\* mc = ma * mb * R^-1 mod L
Montgomery_multiply_mod_order(ma, mb) ==
    WordsOfInt((ValModL(ma) * ValModL(mb) * InvModL(Montgomery_R)) % L)

\* mc = ma^-1 * R^2 mod L, the inverse in the Montgomery domain
Montgomery_inversion_mod_order(ma) ==
    WordsOfInt((InvModL(ValModL(ma)) * Montgomery_R * Montgomery_R) % L)

\* the constant curve_order as the backend stores it, a digit_t array
curve_order_words == WordsOfInt(curve_order)

(***************************************************************************)
(* Backend: field GF(FIELD_P) and the curve                                *)
(***************************************************************************)
Fp == 0..(FIELD_P - 1)

fpadd(a, b) == (a + b) % FIELD_P
fpsub(a, b) == (a + FIELD_P - b) % FIELD_P
fpmul(a, b) == (a * b) % FIELD_P

FpInvTable == [a \in Fp |-> PowMod(a, FIELD_P - 2, FIELD_P)]

\* fp2inv1271: the inverse, with 0 mapped to 0
fpinv(a) == FpInvTable[a]

\* affine point_t
AffinePoint == [x : Fp, y : Fp]

AffineIdentity == [x |-> 0, y |-> 1]
AffineGenerator == [x |-> GENERATOR_X, y |-> GENERATOR_Y]

\* the curve equation  -x^2 + y^2 = 1 + d x^2 y^2
OnCurve(P) ==
    LET xx == fpmul(P.x, P.x)
        yy == fpmul(P.y, P.y)
    IN  fpsub(yy, xx) = fpadd(1, fpmul(CURVE_D, fpmul(xx, yy)))

\* affine group law (complete: -1 is a square and d is not)
AffAdd(P, Q) ==
    LET t == fpmul(CURVE_D, fpmul(fpmul(P.x, Q.x), fpmul(P.y, Q.y)))
    IN  [x |-> fpmul(fpadd(fpmul(P.x, Q.y), fpmul(P.y, Q.x)), fpinv(fpadd(1, t))),
         y |-> fpmul(fpadd(fpmul(P.y, Q.y), fpmul(P.x, Q.x)), fpinv(fpsub(1, t)))]

\* k * P by repeated addition
RECURSIVE AffMulRep(_, _)
AffMulRep(k, P) == IF k = 0 THEN AffineIdentity ELSE AffAdd(AffMulRep(k - 1, P), P)

\* k * P by double-and-add
RECURSIVE AffMulDbl(_, _)
AffMulDbl(k, P) ==
    IF k = 0 THEN AffineIdentity
    ELSE IF k % 2 = 1 THEN AffAdd(P, AffMulDbl(k \div 2, AffAdd(P, P)))
    ELSE AffMulDbl(k \div 2, AffAdd(P, P))

\* membership in the subgroup of prime order L
InSubgroup(P) == OnCurve(P) /\ AffMulRep(L, P) = AffineIdentity

\* point_setup: affine (x, y) to extended projective (X, Y, Z, Ta, Tb)
point_setup(P) == [x |-> P.x, y |-> P.y, z |-> 1, ta |-> P.x, tb |-> P.y]

\* eccnorm (output): projective to affine, x = X/Z, y = Y/Z
eccnorm(P) ==
    LET zi == fpinv(P.z)
    IN  [x |-> fpmul(P.x, zi), y |-> fpmul(P.y, zi)]

\* eccnorm (side effect): the input's Z is replaced by its inverse
eccnorm_input(P) == [P EXCEPT !.z = fpinv(P.z)]

\* R1_to_R2: (X, Y, Z, Ta, Tb) to (X+Y, Y-X, 2Z, 2dT)
R1_to_R2(P) ==
    [xy  |-> fpadd(P.x, P.y),
     yx  |-> fpsub(P.y, P.x),
     z2  |-> fpadd(P.z, P.z),
     t2  |-> fpmul(fpmul(2, CURVE_D), fpmul(P.ta, P.tb))]

\* eccadd: P = P + Q, with Q in precomputed (R2) form
eccadd(Q, P) ==
    LET a == fpmul(fpsub(P.y, P.x), Q.yx)
        b == fpmul(fpadd(P.y, P.x), Q.xy)
        c == fpmul(fpmul(P.ta, P.tb), Q.t2)
        d == fpmul(P.z, Q.z2)
        e == fpsub(b, a)
        f == fpsub(d, c)
        g == fpadd(d, c)
        h == fpadd(b, a)
    IN  [x |-> fpmul(e, f), y |-> fpmul(g, h), z |-> fpmul(f, g), ta |-> e, tb |-> h]

\* ecc_point_validate: the point (X, Y) is on the curve and in the
\* prime-order subgroup
ecc_point_validate(P) == InSubgroup([x |-> P.x, y |-> P.y])

\* eccset: the generator
eccset == AffineGenerator

\* the precomputed table of multiples of the generator
FixedBaseTable == [k \in 0..(L - 1) |-> AffMulRep(k, AffineGenerator)]

\* ecc_mul_fixed: k * G from the table
ecc_mul_fixed(k) == [ok |-> TRUE, Q |-> FixedBaseTable[ValModL(k)]]

\* ecc_mul: k * P, refusing a point that does not validate
ecc_mul(P, k) ==
    [ok |-> InSubgroup(P), Q |-> AffMulDbl(ValModL(k), P)]

\* ecc_mul_double: k * G + l * Q
ecc_mul_double(k, Q, l) ==
    [ok |-> InSubgroup(Q),
     R  |-> AffAdd(FixedBaseTable[ValModL(k)], AffMulDbl(ValModL(l), Q))]

\* sign of an x coordinate, the bit kept in the top bit of the encoding
SignOf(x) == IF 2 * x > FIELD_P THEN 1 ELSE 0

\* encode: y in the low bytes, the sign of x in the top bit of the last byte
encode(P) == BytesOf(P.y, 128 * SignOf(P.x))

\* decode: the curve point with the given encoding, or ECCRYPTO_ERROR when
\* there is none; the output point is then left unset.  The x coordinate is
\* the root of the curve equation whose sign is the encoding's top bit.
decode(b) ==
    LET y     == b[1]
        top   == b[ECC_KEY_LENGTH]
        roots == IF y \in Fp /\ SubSeq(b, 2, ECC_KEY_LENGTH - 1) = MiddleZeros
                    /\ top % 128 = 0
                 THEN {x \in Fp : OnCurve([x |-> x, y |-> y]) /\ SignOf(x) = top \div 128}
                 ELSE {}
    IN  IF roots = {} THEN [status |-> ECCRYPTO_ERROR, set |-> FALSE, P |-> AffineIdentity]
        ELSE [status |-> ECCRYPTO_SUCCESS, set |-> TRUE,
              P |-> [x |-> CHOOSE x \in roots : TRUE, y |-> y]]

(***************************************************************************)
(* utils.hpp: hex conversion.  A std::string is a sequence of characters.  *)
(***************************************************************************)
LowerHex == <<"0", "1", "2", "3", "4", "5", "6", "7",
              "8", "9", "a", "b", "c", "d", "e", "f">>
UpperHex == <<"0", "1", "2", "3", "4", "5", "6", "7",
              "8", "9", "A", "B", "C", "D", "E", "F">>

HexChars == {LowerHex[i] : i \in 1..16} \cup {UpperHex[i] : i \in 1..16}

HexDigitTable ==
    [c \in HexChars |->
        IF \E i \in 1..16 : LowerHex[i] = c
        THEN (CHOOSE i \in 1..16 : LowerHex[i] = c) - 1
        ELSE (CHOOSE i \in 1..16 : UpperHex[i] = c) - 1]

\* value of a character std::from_chars accepts in base 16, else -1
HexDigitVal(c) == IF c \in HexChars THEN HexDigitTable[c] ELSE -1

\* bytes_to_hex_string: two lower-case digits per byte, in order
RECURSIVE HexFrom(_, _)
HexFrom(bytes, i) ==
    IF i > Len(bytes) THEN <<>>
    ELSE <<LowerHex[(bytes[i] \div 16) + 1], LowerHex[(bytes[i] % 16) + 1]>>
             \o HexFrom(bytes, i + 1)

bytes_to_hex_string(bytes) == HexFrom(bytes, 1)

RECURSIVE UnhexFrom(_, _)
UnhexFrom(hex, i) ==
    IF 2 * i > Len(hex) THEN <<>>
    ELSE <<16 * HexDigitVal(hex[2 * i - 1]) + HexDigitVal(hex[2 * i])>>
             \o UnhexFrom(hex, i + 1)

\* hex_string_to_bytes: std::invalid_argument on an odd length or on a pair
\* from_chars does not consume entirely
hex_string_to_bytes(hex) ==
    IF Len(hex) % 2 # 0 THEN [exc |-> "invalid_argument", out |-> ZeroBytes]
    ELSE IF \E k \in 1..Len(hex) : HexDigitVal(hex[k]) < 0
    THEN [exc |-> "invalid_argument", out |-> ZeroBytes]
    ELSE [exc |-> "none", out |-> UnhexFrom(hex, 1)]

\* reverse_bytes
RECURSIVE ReverseFrom(_, _)
ReverseFrom(in, i) ==
    IF i > ECC_KEY_LENGTH THEN <<>>
    ELSE <<in[ECC_KEY_LENGTH + 1 - i]>> \o ReverseFrom(in, i + 1)

reverse_bytes(in) == ReverseFrom(in, 1)

(***************************************************************************)
(* Scalar                                                                  *)
(***************************************************************************)
\* Scalar::toBytes
RECURSIVE ToBytesFrom(_, _)
ToBytesFrom(w, i) ==
    IF i > NWORDS_ORDER THEN <<>>
    ELSE SubSeq(w[i], 1, DIGIT_BYTES) \o ToBytesFrom(w, i + 1)

Scalar_toBytes(w) == ToBytesFrom(w, 1)

\* Scalar::toWords
RECURSIVE ToWordsFrom(_, _)
ToWordsFrom(b, i) ==
    IF i > NWORDS_ORDER THEN <<>>
    ELSE <<SubSeq(b, (i - 1) * DIGIT_BYTES + 1, i * DIGIT_BYTES)>> \o ToWordsFrom(b, i + 1)

Scalar_toWords(b) == ToWordsFrom(b, 1)

\* Scalar::Scalar(uint32_t val):  _b.fill(0); _b[0] = val
Scalar_uint(val) == <<DigitOf(val)>> \o HighZeroWords

\* Scalar::Scalar(const EccDataType&)
Scalar_raw_Unreduced(val) == Scalar_toWords(val)

Scalar_raw(val) == modulo_order(Scalar_toWords(val))

\* Scalar::getRaw
Scalar_getRaw(b) == Scalar_toBytes(b)

\* Scalar::toString with the bytes reversed before the conversion
Scalar_toString_Reversed(b) == bytes_to_hex_string(reverse_bytes(Scalar_getRaw(b)))

\* Scalar::toString
Scalar_toString(b) == bytes_to_hex_string(Scalar_getRaw(b))

\* Scalar::fromString storing the parsed bytes without modulo_order
Scalar_fromString_Unreduced(b, ins) ==
    IF Len(ins) # 2 * ECC_KEY_LENGTH THEN [exc |-> "runtime_error", b |-> b]
    ELSE LET h == hex_string_to_bytes(ins)
         IN  IF h.exc # "none" THEN [exc |-> h.exc, b |-> b]
             ELSE [exc |-> "none", b |-> Scalar_toWords(h.out)]

\* Scalar::fromString: the new _b, or the exception thrown with _b untouched
Scalar_fromString(b, ins) ==
    IF Len(ins) # 2 * ECC_KEY_LENGTH THEN [exc |-> "runtime_error", b |-> b]
    ELSE LET h == hex_string_to_bytes(ins)
         IN  IF h.exc # "none" THEN [exc |-> h.exc, b |-> b]
             ELSE [exc |-> "none", b |-> modulo_order(Scalar_toWords(h.out))]

\* Scalar::isZero
Scalar_isZero(b) == \A i \in 1..NWORDS_ORDER : b[i] = ZeroDigit

\* Scalar::Sanitize
Scalar_Sanitize(b) == modulo_order(b)

\* operator==(Scalar, Scalar): memcmp over the word arrays
Scalar_eq(lh, rh) == memcmp(MemBytes(lh), MemBytes(rh), 1) = 0

\* operator<(Scalar, Scalar)
Scalar_lt(lh, rh) == memcmp(MemBytes(lh), MemBytes(rh), 1) < 0

\* operator+(Scalar, Scalar)
Scalar_add(lh, rh) == add_mod_order(lh, rh)

\* operator-(Scalar, Scalar)
Scalar_sub_Swapped(lh, rh) == subtract_mod_order(rh, lh)

Scalar_sub(lh, rh) == subtract_mod_order(lh, rh)

\* operator*(Scalar, Scalar)
Scalar_mul(lh, rh) ==
    LET lt == to_Montgomery(lh)
        rt == to_Montgomery(rh)
    IN  from_Montgomery(Montgomery_multiply_mod_order(lt, rt))

\* operator/(Scalar, Scalar)
Scalar_div(lh, rh) ==
    IF Scalar_isZero(rh) THEN [exc |-> "runtime_error", b |-> Scalar_uint(0)]
    ELSE LET lt == to_Montgomery(lh)
             rt_mont == to_Montgomery(rh)
             ivt_mont == Montgomery_inversion_mod_order(rt_mont)
         IN  [exc |-> "none",
              b |-> from_Montgomery(Montgomery_multiply_mod_order(lt, ivt_mont))]

\* Scalar::invert
Scalar_invert(b) ==
    IF Scalar_isZero(b) THEN [exc |-> "runtime_error", b |-> Scalar_uint(0)]
    ELSE [exc |-> "none",
          b |-> from_Montgomery(Montgomery_inversion_mod_order(to_Montgomery(b)))]

\* Scalar::negate
Scalar_negate(b) ==
    IF Scalar_isZero(b) THEN Scalar_uint(0)
    ELSE subtract_mod_order(curve_order_words, b)

\* Scalar::getZero
Scalar_getZero == Scalar_uint(0)

\* Point::getOrder:  memcpy(r._b.data(), curve_order, sizeof(curve_order))
Point_getOrder == curve_order_words

(***************************************************************************)
(* Point.  _pe is the extended projective record.  An operation that can   *)
(* throw yields [exc, pe]: the exception kind and the value _pe is left    *)
(* with.                                                                   *)
(***************************************************************************)
\* Point::Point(): the identity, affine (0, 1)
Point_default == point_setup([x |-> 0, y |-> 1])

\* Point::Point(const EccDataType&); on an exception no object exists
Point_raw(val) ==
    LET dec == decode(val)
        pe == point_setup(dec.P)
    IN  IF dec.status # ECCRYPTO_SUCCESS THEN [exc |-> "runtime_error", pe |-> Point_default]
        ELSE IF ~ecc_point_validate(pe) THEN [exc |-> "runtime_error", pe |-> pe]
        ELSE [exc |-> "none", pe |-> pe]

\* eccnorm run on the object itself instead of on the copy
Normalize_InPlace(this, p_copy) ==
    [this |-> eccnorm_input(this), p_copy |-> p_copy, pa |-> eccnorm(this)]

\* the step "eccnorm(p_copy._pe, pa)" of the const member functions: what it
\* leaves in the object, in the local copy and in pa
Normalize(this, p_copy) ==
    [this |-> this, p_copy |-> eccnorm_input(p_copy), pa |-> eccnorm(p_copy)]

\* Point::getRaw: normalises a copy, then encodes
Point_getRaw(pe) == encode(eccnorm(pe))

\* Point::toString with the byte reversal left out
Point_toString_NoReverse(pe) == bytes_to_hex_string(Point_getRaw(pe))

\* Point::toString
Point_toString(pe) == bytes_to_hex_string(reverse_bytes(Point_getRaw(pe)))

\* Point::fromString on an object holding pe.  The status of decode is not
\* looked at; stale is what the local point_t holds when decode wrote nothing.
Point_fromString(pe, str, stale) ==
    IF Len(str) # 2 * ECC_KEY_LENGTH THEN [exc |-> "invalid_argument", pe |-> pe]
    ELSE LET h == hex_string_to_bytes(str)
         IN  IF h.exc # "none" THEN [exc |-> h.exc, pe |-> pe]
             ELSE LET dec == decode(reverse_bytes(h.out))
                      pa == IF dec.set THEN dec.P ELSE stale
                      new == point_setup(pa)
                  IN  IF ecc_point_validate(new) = FALSE
                      THEN [exc |-> "runtime_error", pe |-> new]
                      ELSE [exc |-> "none", pe |-> new]

\* Point::isZero: the normalised copy against affine (0, 1)
Point_isZero(pe) ==
    LET normalized_point == eccnorm(pe)
    IN  normalized_point.x = 0 /\ normalized_point.y = 1

\* Point::operator+=
Point_addAssign(pe, that) == eccadd(R1_to_R2(that), pe)

\* Point::operator*=: eccnorm runs on _pe itself, so a throw leaves its
\* side effect behind
Point_mulAssign(pe, b) ==
    LET P_affine == eccnorm(pe)
        r == ecc_mul(P_affine, b)
    IN  IF ~r.ok THEN [exc |-> "runtime_error", pe |-> eccnorm_input(pe)]
        ELSE [exc |-> "none", pe |-> point_setup(r.Q)]

\* operator*(Scalar, Point): copy, then *=
Point_mul(b, ep) ==
    LET r == Point_mulAssign(ep, b)
    IN  [exc |-> r.exc, pe |-> r.pe]

\* Point::getZero
Point_getZero == Point_default

\* Point::getBase
Point_getBase == point_setup(eccset)

\* Point::negate
Point_negate_ByOrder(p0) ==
    IF Point_isZero(p0) THEN [exc |-> "none", pe |-> Point_getZero]
    ELSE Point_mul(curve_order_words, p0)

Point_negate(p0) ==
    IF Point_isZero(p0) THEN [exc |-> "none", pe |-> Point_getZero]
    ELSE LET minus_one == subtract_mod_order(curve_order_words, Scalar_uint(1))
         IN  Point_mul(minus_one, p0)

\* Point::operator-=:  *this += Point::negate(that)
Point_subAssign(pe, that) ==
    LET n == Point_negate(that)
    IN  IF n.exc # "none" THEN [exc |-> n.exc, pe |-> pe]
        ELSE [exc |-> "none", pe |-> Point_addAssign(pe, n.pe)]

\* operator+(Point, Point)
Point_add(lh, rh) == Point_addAssign(lh, rh)

\* operator-(Point, Point)
Point_sub(lh, rh) == Point_subAssign(lh, rh)

\* The binary operators with their operands: what the call leaves in the
\* result and in each object it was handed.  operator+ and operator- copy lh
\* into ret and assign to ret; operator* copies ep into tmp and assigns to
\* tmp; += and -= copy that (or negate it into a temporary) before the add.
operator_plus(lh, rh) ==
    LET ret == lh
    IN  [exc |-> "none", ret |-> Point_addAssign(ret, rh), lh |-> lh, rh |-> rh]

operator_minus(lh, rh) ==
    LET ret == lh
        r == Point_subAssign(ret, rh)
    IN  [exc |-> r.exc, ret |-> r.pe, lh |-> lh, rh |-> rh]

operator_times(b, ep) ==
    LET tmp == ep
        r == Point_mulAssign(tmp, b)
    IN  [exc |-> r.exc, ret |-> r.pe, b |-> b, ep |-> ep]

operator_plus_assign(this, that) ==
    LET that_copy == that
    IN  [exc |-> "none", this |-> Point_addAssign(this, that_copy), that |-> that]

operator_minus_assign(this, that) ==
    LET r == Point_subAssign(this, that)
    IN  [exc |-> r.exc, this |-> r.pe, that |-> that]

\* Point::MulAdd
Point_MulAdd_Swapped(pe, mG, mP) ==
    LET pthis_affine == eccnorm(pe)
        r == ecc_mul_double(mP, pthis_affine, mG)
    IN  IF ~r.ok THEN [exc |-> "runtime_error", pe |-> Point_default]
        ELSE [exc |-> "none", pe |-> point_setup(r.R)]

Point_MulAdd(pe, mG, mP) ==
    LET pthis_affine == eccnorm(pe)
        r == ecc_mul_double(mG, pthis_affine, mP)
    IN  IF ~r.ok THEN [exc |-> "runtime_error", pe |-> Point_default]
        ELSE [exc |-> "none", pe |-> point_setup(r.R)]

\* Point::mulBase
Point_mulBase_NoSetup(b) ==
    LET r == ecc_mul_fixed(b)
    IN  IF ~r.ok THEN [exc |-> "runtime_error", pe |-> Point_default]
        ELSE [exc |-> "none", pe |-> Point_default]

Point_mulBase(b) ==
    LET r == ecc_mul_fixed(b)
    IN  IF ~r.ok THEN [exc |-> "runtime_error", pe |-> Point_default]
        ELSE [exc |-> "none", pe |-> point_setup(r.Q)]

\* operator==(Point, Point)
Point_eq_Internal(lh, rh) == lh = rh

Point_eq(lh, rh) == Point_getRaw(lh) = Point_getRaw(rh)

\* operator!=(Point, Point)
Point_ne(lh, rh) == ~Point_eq(lh, rh)

\* operator<(Point, Point)
Point_lt(lh, rh) == memcmp(Point_getRaw(lh), Point_getRaw(rh), 1) < 0

(***************************************************************************)
(* Backend: SchnorrQ over the raw byte interfaces.  The signature is the   *)
(* encoded commitment R followed by the response S.                        *)
(***************************************************************************)
\* the weight of a byte position in the hash
HashWeight == [k \in 0..(L - 2) |-> PowMod(3, k, L)]

HashZeros == Zeros(SIG_LENGTH) \o Zeros(SIG_LENGTH)

\* the hash of a byte string, reduced modulo the order: its length plus a
\* weighted sum of its bytes, summed by halves
RECURSIVE HashRange(_, _, _)
HashRange(data, lo, hi) ==
    IF lo > hi THEN 0
    ELSE IF lo = hi THEN (data[lo] * HashWeight[lo % (L - 1)]) % L
    ELSE IF SubSeq(data, lo, hi) = SubSeq(HashZeros, lo, hi) THEN 0
    ELSE LET mid == (lo + hi) \div 2
         IN  (HashRange(data, lo, mid) + HashRange(data, mid + 1, hi)) % L

HashModL(data) == (Len(data) + HashRange(data, 1, Len(data))) % L

SigR(sig) == SubSeq(sig, 1, ECC_KEY_LENGTH)
SigS(sig) == SubSeq(sig, ECC_KEY_LENGTH + 1, SIG_LENGTH)

\* SchnorrQ_Sign(SecretKey, PublicKey, Message, SizeMessage, Signature)
SchnorrQ_Sign(sk, pk, msg, len) ==
    LET m == SubSeq(msg, 1, len)
        s == ValModL(Scalar_toWords(sk))
        r == HashModL(sk \o m)
        R == encode(FixedBaseTable[r])
        h == HashModL(R \o pk \o m)
        S == (r + L * L - s * h) % L
    IN  [status |-> ECCRYPTO_SUCCESS, sig |-> R \o MemBytes(WordsOfInt(S))]

\* SchnorrQ_Verify(PublicKey, Message, SizeMessage, Signature, &valid):
\* an error for a public key that does not decode or validate and for a
\* response wider than the order; otherwise valid tells whether
\* S * G + h * A encodes to the commitment
SchnorrQ_Verify(pk, msg, len, sig) ==
    LET m == SubSeq(msg, 1, len)
        dec == decode(pk)
        S == Scalar_toWords(SigS(sig))
        h == HashModL(SigR(sig) \o pk \o m)
        r == ecc_mul_double(S, dec.P, WordsOfInt(h))
    IN  IF dec.status # ECCRYPTO_SUCCESS \/ ~r.ok
        THEN [status |-> ECCRYPTO_ERROR, valid |-> 0]
        ELSE IF ~(\E v \in 0..L : IsInt(S, v))
        THEN [status |-> ECCRYPTO_ERROR, valid |-> 0]
        ELSE [status |-> ECCRYPTO_SUCCESS,
              valid |-> IF encode(r.R) = SigR(sig) THEN 1 ELSE 0]

(***************************************************************************)
(* SchnorrQSign / SchnorrQVerify templates                                 *)
(***************************************************************************)
NoCall == [fn |-> "none", sk |-> ZeroBytes, pk |-> ZeroBytes, len |-> 0,
           status |-> ECCRYPTO_ERROR, valid |-> 0]

SchnorrQSign_ReversedKey(secretKey, msg, sig) ==
    LET skraw == Scalar_getRaw(secretKey)
        pubkey == Point_mulBase(secretKey)
        pkraw == reverse_bytes(Point_getRaw(pubkey.pe))
        len == Len(msg) % UINT_MOD
        sret == SchnorrQ_Sign(skraw, pkraw, msg, len)
    IN  IF pubkey.exc # "none"
        THEN [exc |-> pubkey.exc, ret |-> FALSE, sig |-> sig, call |-> NoCall]
        ELSE IF Len(msg) = 0
        THEN [exc |-> "none", ret |-> FALSE, sig |-> sig, call |-> NoCall]
        ELSE [exc |-> "none", ret |-> sret.status = ECCRYPTO_SUCCESS, sig |-> sret.sig,
              call |-> [fn |-> "sign", sk |-> skraw, pk |-> pkraw, len |-> len,
                        status |-> sret.status, valid |-> 0]]

SchnorrQSign_NoEmptyCheck(secretKey, msg, sig) ==
    LET skraw == Scalar_getRaw(secretKey)
        pubkey == Point_mulBase(secretKey)
        pkraw == Point_getRaw(pubkey.pe)
        len == Len(msg) % UINT_MOD
        sret == SchnorrQ_Sign(skraw, pkraw, msg, len)
    IN  IF pubkey.exc # "none"
        THEN [exc |-> pubkey.exc, ret |-> FALSE, sig |-> sig, call |-> NoCall]
        ELSE [exc |-> "none", ret |-> sret.status = ECCRYPTO_SUCCESS, sig |-> sret.sig,
              call |-> [fn |-> "sign", sk |-> skraw, pk |-> pkraw, len |-> len,
                        status |-> sret.status, valid |-> 0]]

SchnorrQSign_SwappedKeys(secretKey, msg, sig) ==
    LET skraw == Scalar_getRaw(secretKey)
        pubkey == Point_mulBase(secretKey)
        pkraw == Point_getRaw(pubkey.pe)
        len == Len(msg) % UINT_MOD
        sret == SchnorrQ_Sign(pkraw, skraw, msg, len)
    IN  IF pubkey.exc # "none"
        THEN [exc |-> pubkey.exc, ret |-> FALSE, sig |-> sig, call |-> NoCall]
        ELSE IF Len(msg) = 0
        THEN [exc |-> "none", ret |-> FALSE, sig |-> sig, call |-> NoCall]
        ELSE [exc |-> "none", ret |-> sret.status = ECCRYPTO_SUCCESS, sig |-> sret.sig,
              call |-> [fn |-> "sign", sk |-> pkraw, pk |-> skraw, len |-> len,
                        status |-> sret.status, valid |-> 0]]

\* SchnorrQSign(secretKey, msg, sig)
SchnorrQSign(secretKey, msg, sig) ==
    LET skraw == Scalar_getRaw(secretKey)
        pubkey == Point_mulBase(secretKey)
        pkraw == Point_getRaw(pubkey.pe)
        len == Len(msg) % UINT_MOD
        sret == SchnorrQ_Sign(skraw, pkraw, msg, len)
    IN  IF pubkey.exc # "none"
        THEN [exc |-> pubkey.exc, ret |-> FALSE, sig |-> sig, call |-> NoCall]
        ELSE IF Len(msg) = 0
        THEN [exc |-> "none", ret |-> FALSE, sig |-> sig, call |-> NoCall]
        ELSE [exc |-> "none", ret |-> sret.status = ECCRYPTO_SUCCESS, sig |-> sret.sig,
              call |-> [fn |-> "sign", sk |-> skraw, pk |-> pkraw, len |-> len,
                        status |-> sret.status, valid |-> 0]]

\* SchnorrQVerify(pubkey, msg, sig)
SchnorrQVerify_StatusOnly(pubkey, msg, sig) ==
    LET pkraw == Point_getRaw(pubkey)
        len == Len(msg) % UINT_MOD
        vret == SchnorrQ_Verify(pkraw, msg, len, sig)
    IN  [exc |-> "none",
         ret |-> vret.status = ECCRYPTO_SUCCESS,
         call |-> [fn |-> "verify", sk |-> ZeroBytes, pk |-> pkraw, len |-> len,
                   status |-> vret.status, valid |-> vret.valid]]

SchnorrQVerify(pubkey, msg, sig) ==
    LET pkraw == Point_getRaw(pubkey)
        len == Len(msg) % UINT_MOD
        vret == SchnorrQ_Verify(pkraw, msg, len, sig)
    IN  [exc |-> "none",
         ret |-> vret.status = ECCRYPTO_SUCCESS /\ vret.valid # 0,
         call |-> [fn |-> "verify", sk |-> ZeroBytes, pk |-> pkraw, len |-> len,
                   status |-> vret.status, valid |-> vret.valid]]

(***************************************************************************)
(* State.  Two Scalar objects, one Point object, one signature buffer, the *)
(* exception the last call left with its caller, and a record of that call *)
(***************************************************************************)
VARIABLES sc, pt, adds, sig, flips, exc, last, rd

vars == <<sc, pt, adds, sig, flips, exc, last, rd>>

ZeroSig == Zeros(SIG_LENGTH)

LastOf(o, d, r, c, k, m) ==
    [op |-> o, dst |-> d, ret |-> r, call |-> c, sk |-> k, msg |-> m, args |-> <<>>]

\* the record of a call that is neither SchnorrQSign nor SchnorrQVerify;
\* d is the Scalar object the result went to, 0 when there is none
Did(o, d) == LastOf(o, d, FALSE, NoCall, Scalar_uint(0), <<>>)

\* the threads that call the const member functions of the one Point pt
Threads == 1..2

\* a thread outside any call
NotReading ==
    [pc |-> "idle", op |-> "none", p_copy |-> Point_default,
     pa |-> AffineIdentity, ret |-> <<>>]

Init ==
    /\ sc = [i \in Slots |-> Scalar_uint(0)]
    /\ pt = Point_default
    /\ adds = 0
    /\ sig = ZeroSig
    /\ flips = 0
    /\ exc = "none"
    /\ last = Did("init", 0)
    /\ rd = [t \in Threads |-> NotReading]

(***************************************************************************)
(* Inputs                                                                  *)
(***************************************************************************)
UIntInputs == 0..UINT32_MAX

ScalarRawInputs ==
    {BytesOf(3, 0), BytesOf(L, 0), BytesOf(200, 0), BytesOf(5, 1),
     <<255>> \o MiddleZeros \o <<255>>}

WrongLengthString == <<"1", "2", "3", "4", "5">>

ScalarStringInputs ==
    {bytes_to_hex_string(BytesOf(1, 0)),
     bytes_to_hex_string(BytesOf(6, 0)),
     bytes_to_hex_string(BytesOf(L + 2, 0)),
     [bytes_to_hex_string(BytesOf(171, 0)) EXCEPT ![1] = "A"],
     [bytes_to_hex_string(BytesOf(1, 0)) EXCEPT ![2 * ECC_KEY_LENGTH] = "x"],
     WrongLengthString}

\* every value a Scalar temporary built in place can hold
ScalarOperands == {Scalar_uint(v) : v \in UIntInputs} \cup {Point_getOrder}

\* Scalar actions: the result lands in the object i; input is the string or
\* byte buffer the call was given
SetScalarArgs(o, i, r, input) ==
    /\ sc' = [sc EXCEPT ![i] = r.b]
    /\ exc' = r.exc
    /\ last' = [Did(o, i) EXCEPT !.args = input]
    /\ UNCHANGED <<pt, adds, sig, flips, rd>>

SetScalar(o, i, r) == SetScalarArgs(o, i, r, <<>>)

Returns(b) == [exc |-> "none", b |-> b]

\* the assignment target keeps its value when the right-hand side throws
Keeps(r, old) == IF r.exc = "none" THEN r ELSE [exc |-> r.exc, b |-> old]

SUint(i, v) == SetScalar("Scalar(uint32_t)", i, Returns(Scalar_uint(v)))

SRaw(i, val) == SetScalarArgs("Scalar(EccDataType)", i, Returns(Scalar_raw(val)), <<val>>)

SFromString(i, ins) ==
    SetScalarArgs("Scalar::fromString", i, Scalar_fromString(sc[i], ins), <<ins>>)

SAssign(i, j) == SetScalar("Scalar::operator=", i, Returns(sc[j]))

SAdd(i, j, k) == SetScalar("Scalar+", i, Returns(Scalar_add(sc[j], sc[k])))

SSub(i, j, k) == SetScalar("Scalar-", i, Returns(Scalar_sub(sc[j], sc[k])))

SMul(i, j, k) == SetScalar("Scalar*", i, Returns(Scalar_mul(sc[j], sc[k])))

SDiv(i, j, k) == SetScalar("Scalar/", i, Keeps(Scalar_div(sc[j], sc[k]), sc[i]))

SInvert(i, j) == SetScalar("Scalar::invert", i, Keeps(Scalar_invert(sc[j]), sc[i]))

SNegate(i, j) == SetScalar("Scalar::negate", i, Returns(Scalar_negate(sc[j])))

SGetZero(i) == SetScalar("Scalar::getZero", i, Returns(Scalar_getZero))

SSanitize(i) == SetScalar("Scalar::Sanitize", i, Returns(Scalar_Sanitize(sc[i])))

SGetOrder(i) == SetScalar("Point::getOrder", i, Returns(Point_getOrder))

NextScalar ==
    \/ \E i \in Slots, v \in UIntInputs : SUint(i, v)
    \/ \E i \in Slots, val \in ScalarRawInputs : SRaw(i, val)
    \/ \E i \in Slots, ins \in ScalarStringInputs : SFromString(i, ins)
    \/ \E i, j \in Slots : SAssign(i, j)
    \/ \E i, j, k \in Slots : SAdd(i, j, k)
    \/ \E i, j, k \in Slots : SSub(i, j, k)
    \/ \E i, j, k \in Slots : SMul(i, j, k)
    \/ \E i, j, k \in Slots : SDiv(i, j, k)
    \/ \E i, j \in Slots : SInvert(i, j)
    \/ \E i, j \in Slots : SNegate(i, j)
    \/ \E i \in Slots : SGetZero(i)
    \/ \E i \in Slots : SSanitize(i)
    \/ \E i \in Slots : SGetOrder(i)

SpecScalar == Init /\ [][NextScalar]_vars

(***************************************************************************)
(* Point actions on the Point object pt.  Scalar and Point operands other  *)
(* than pt itself are temporaries built in place.                          *)
(***************************************************************************)
PointRawInputs ==
    {encode(AffineGenerator), encode(AffineIdentity),
     ZeroBytes, BytesOf(FIELD_P - 1, 0),
     BytesOf(2, 0), BytesOf(1, 128)}

PointStringInputs ==
    {bytes_to_hex_string(reverse_bytes(b)) : b \in PointRawInputs}
        \cup {WrongLengthString,
              [bytes_to_hex_string(reverse_bytes(encode(AffineGenerator)))
                  EXCEPT ![1] = "g"]}

\* what an unset local point_t can hold
StalePoints == {AffineGenerator, [x |-> 0, y |-> 0]}

\* Points built in place: Point::mulBase of a Scalar temporary
FreshPoints == {Point_mulBase(b).pe : b \in ScalarOperands}

\* the right-hand Point of a binary operation: pt itself or a temporary
ThatOperands == {pt} \cup FreshPoints

SetPointArgs(o, r, a, scalars) ==
    /\ pt' = r.pe
    /\ exc' = r.exc
    /\ adds' = a
    /\ last' = [Did(o, 0) EXCEPT !.args = scalars]
    /\ UNCHANGED <<sc, sig, flips, rd>>

SetPoint(o, r, a) == SetPointArgs(o, r, a, <<>>)

\* pt = <expression>: pt keeps its value when the expression throws
Assigned(r) == IF r.exc = "none" THEN r ELSE [exc |-> r.exc, pe |-> pt]

PDefault == SetPoint("Point()", [exc |-> "none", pe |-> Point_default], 0)

PRaw(val) ==
    LET r == Assigned(Point_raw(val))
    IN  SetPointArgs("Point(EccDataType)", r, IF r.exc = "none" THEN 0 ELSE adds, <<val>>)

\* pt = Point(str): the constructor runs fromString on the new object
PString(str, stale) ==
    LET r == Assigned(Point_fromString(Point_default, str, stale))
    IN  SetPointArgs("Point(string)", r, IF r.exc = "none" THEN 0 ELSE adds, <<str>>)

\* pt.fromString(str)
PFromString(str, stale) ==
    LET r == Point_fromString(pt, str, stale)
    IN  SetPointArgs("Point::fromString", r, IF r.pe = pt THEN adds ELSE 0, <<str>>)

PAssign(that) ==
    SetPoint("Point::operator=", [exc |-> "none", pe |-> that],
             IF that = pt THEN adds ELSE 0)

PGetBase == SetPoint("Point::getBase", [exc |-> "none", pe |-> Point_getBase], 0)

PGetZero == SetPoint("Point::getZero", [exc |-> "none", pe |-> Point_getZero], 0)

PMulBase(b) ==
    LET r == Assigned(Point_mulBase(b))
    IN  SetPointArgs("Point::mulBase", r, IF r.exc = "none" THEN 0 ELSE adds, <<b>>)

PNegate ==
    LET r == Assigned(Point_negate(pt))
    IN  SetPoint("Point::negate", r, IF r.exc = "none" THEN 0 ELSE adds)

PAddAssign(that) ==
    /\ adds < MaxAdds
    /\ SetPoint("Point+=", [exc |-> "none", pe |-> operator_plus_assign(pt, that).this],
                adds + 1)

PSubAssign(that) ==
    /\ adds < MaxAdds
    /\ LET e == operator_minus_assign(pt, that)
           r == [exc |-> e.exc, pe |-> e.this]
       IN  SetPoint("Point-=", r, IF r.exc = "none" THEN adds + 1 ELSE adds)

PMulAssign(b) ==
    LET r == Point_mulAssign(pt, b)
    IN  SetPoint("Point*=", r, IF r.exc = "none" THEN 0 ELSE adds)

\* pt = pt + that
PAdd(that) ==
    /\ adds < MaxAdds
    /\ SetPoint("Point+", [exc |-> "none", pe |-> operator_plus(pt, that).ret], adds + 1)

\* pt = pt - that
PSub(that) ==
    /\ adds < MaxAdds
    /\ LET e == operator_minus(pt, that)
           r == Assigned([exc |-> e.exc, pe |-> e.ret])
       IN  SetPoint("Point-", r, IF r.exc = "none" THEN adds + 1 ELSE adds)

\* pt = b * pt
PMul(b) ==
    LET e == operator_times(b, pt)
        r == Assigned([exc |-> e.exc, pe |-> e.ret])
    IN  SetPoint("Scalar*Point", r, IF r.exc = "none" THEN 0 ELSE adds)

\* the multipliers handed to MulAdd: zero, one, two, the largest value in
\* range and the order
MulAddScalars ==
    {Scalar_uint(0), Scalar_uint(1), Scalar_uint(2), Scalar_uint(L - 1), Point_getOrder}

\* pt = pt.MulAdd(mG, mP)
PMulAdd(mG, mP) ==
    LET r == Assigned(Point_MulAdd(pt, mG, mP))
    IN  SetPointArgs("Point::MulAdd", r, IF r.exc = "none" THEN 0 ELSE adds, <<mG, mP>>)

NextPoint ==
    \/ PDefault
    \/ \E val \in PointRawInputs : PRaw(val)
    \/ \E str \in PointStringInputs, stale \in StalePoints : PString(str, stale)
    \/ \E str \in PointStringInputs, stale \in StalePoints : PFromString(str, stale)
    \/ \E that \in ThatOperands : PAssign(that)
    \/ PGetBase
    \/ PGetZero
    \/ \E b \in ScalarOperands : PMulBase(b)
    \/ PNegate
    \/ \E that \in ThatOperands : PAddAssign(that)
    \/ \E that \in ThatOperands : PSubAssign(that)
    \/ \E b \in ScalarOperands : PMulAssign(b)
    \/ \E that \in ThatOperands : PAdd(that)
    \/ \E that \in ThatOperands : PSub(that)
    \/ \E b \in ScalarOperands : PMul(b)
    \/ \E mG, mP \in MulAddScalars : PMulAdd(mG, mP)

SpecPoint == Init /\ [][NextPoint]_vars

(***************************************************************************)
(* Signature actions.  Sign writes the caller's buffer sig; Verify reads   *)
(* it; Tamper is the caller flipping one bit of the buffer.                *)
(***************************************************************************)
MsgBytes == {1}

RECURSIVE SeqsUpTo(_)
SeqsUpTo(n) ==
    IF n = 0 THEN {<<>>}
    ELSE LET shorter == SeqsUpTo(n - 1)
         IN  shorter \cup {Append(m, c) : m \in {t \in shorter : Len(t) = n - 1}, c \in MsgBytes}

\* every message of at most MaxMsgLen bytes
Messages == SeqsUpTo(MaxMsgLen)

\* a Point object left holding a point outside the subgroup
UnvalidatedPoint ==
    Point_fromString(Point_default, bytes_to_hex_string(reverse_bytes(ZeroBytes)),
                     AffineGenerator).pe

\* the public keys handed to SchnorrQVerify
VerifyKeys ==
    {Point_mulBase(Scalar_uint(0)).pe, Point_mulBase(Scalar_uint(1)).pe,
     Point_mulBase(Scalar_uint(3)).pe, UnvalidatedPoint}

\* the bits of the signature buffer the caller flips: <<byte, bit value>>
TamperBits == {<<1, 1>>, <<ECC_KEY_LENGTH + 1, 1>>, <<SIG_LENGTH, 128>>}

FlipBit(byte, mask) == IF (byte \div mask) % 2 = 1 THEN byte - mask ELSE byte + mask

Sign(secretKey, msg) ==
    LET r == SchnorrQSign(secretKey, msg, sig)
    IN  /\ sig' = r.sig
        /\ flips' = 0
        /\ exc' = r.exc
        /\ last' = LastOf("SchnorrQSign", 0, r.ret, r.call, secretKey, msg)
        /\ UNCHANGED <<sc, pt, adds, rd>>

Verify(pubkey, msg) ==
    LET r == SchnorrQVerify(pubkey, msg, sig)
    IN  /\ exc' = r.exc
        /\ last' = LastOf("SchnorrQVerify", 0, r.ret, r.call, Scalar_uint(0), msg)
        /\ UNCHANGED <<sc, pt, adds, sig, flips, rd>>

Tamper(k, mask) ==
    /\ flips < MaxFlips
    /\ sig' = [sig EXCEPT ![k] = FlipBit(sig[k], mask)]
    /\ flips' = flips + 1
    /\ exc' = "none"
    /\ last' = Did("tamper", 0)
    /\ UNCHANGED <<sc, pt, adds, rd>>

NextSchnorr ==
    \/ \E secretKey \in ScalarOperands, msg \in Messages : Sign(secretKey, msg)
    \/ \E pubkey \in VerifyKeys, msg \in Messages : Verify(pubkey, msg)
    \/ \E t \in TamperBits : Tamper(t[1], t[2])

SpecSchnorr == Init /\ [][NextSchnorr]_vars

\* the operations that can raise: the two parsers, the Point constructor
\* from bytes, division and inversion
NextParse ==
    \/ \E i \in Slots, ins \in ScalarStringInputs : SFromString(i, ins)
    \/ \E i, j, k \in Slots : SDiv(i, j, k)
    \/ \E i, j \in Slots : SInvert(i, j)
    \/ \E val \in PointRawInputs : PRaw(val)
    \/ \E str \in PointStringInputs, stale \in StalePoints : PFromString(str, stale)

SpecParse == Init /\ [][NextParse]_vars

(***************************************************************************)
(* Several threads calling the const member functions of one Point.  A     *)
(* call is three steps: copy the object, normalise the copy, compute the   *)
(* result from the affine point.  pt is assigned only while no call runs.  *)
(***************************************************************************)
ReadOps == {"Point::getRaw", "Point::toString", "Point::isZero", "Point::MulAdd",
            "Point==", "Point!=", "Point<"}

\* the other operand of the comparisons and the scalars of MulAdd
ComparedWith == Point_getBase
ReadMulAddG == Scalar_uint(1)
ReadMulAddP == Scalar_uint(2)

\* what a call returns, computed from the affine point pa of its copy
ResultOf(op, pa) ==
    CASE op = "Point::getRaw" -> encode(pa)
      [] op = "Point::toString" -> bytes_to_hex_string(reverse_bytes(encode(pa)))
      [] op = "Point::isZero" -> pa.x = 0 /\ pa.y = 1
      [] op = "Point::MulAdd" ->
            LET r == ecc_mul_double(ReadMulAddG, pa, ReadMulAddP)
            IN  IF ~r.ok THEN [exc |-> "runtime_error", pe |-> Point_default]
                ELSE [exc |-> "none", pe |-> point_setup(r.R)]
      [] op = "Point==" -> encode(pa) = Point_getRaw(ComparedWith)
      [] op = "Point!=" -> ~(encode(pa) = Point_getRaw(ComparedWith))
      [] op = "Point<" -> memcmp(encode(pa), Point_getRaw(ComparedWith), 1) < 0

AllIdle == \A t \in Threads : rd[t].pc = "idle"

\* Point p_copy = *this;
RCall(t, op) ==
    /\ rd[t].pc = "idle"
    /\ rd' = [rd EXCEPT ![t] = [NotReading EXCEPT !.pc = "copied", !.op = op,
                                                  !.p_copy = pt]]
    /\ UNCHANGED <<sc, pt, adds, sig, flips, exc, last>>

\* eccnorm(p_copy._pe, pa);
RNormalize(t) ==
    /\ rd[t].pc = "copied"
    /\ LET r == Normalize(pt, rd[t].p_copy)
       IN  /\ pt' = r.this
           /\ rd' = [rd EXCEPT ![t].pc = "normalized", ![t].p_copy = r.p_copy,
                               ![t].pa = r.pa]
    /\ UNCHANGED <<sc, adds, sig, flips, exc, last>>

\* the rest of the function, up to its return
RReturn(t) ==
    /\ rd[t].pc = "normalized"
    /\ rd' = [rd EXCEPT ![t].pc = "done",
                        ![t].ret = <<ResultOf(rd[t].op, rd[t].pa)>>]
    /\ UNCHANGED <<sc, pt, adds, sig, flips, exc, last>>

\* the caller takes the result
RJoin(t) ==
    /\ rd[t].pc = "done"
    /\ rd' = [rd EXCEPT ![t] = NotReading]
    /\ UNCHANGED <<sc, pt, adds, sig, flips, exc, last>>

NextReaders ==
    \/ \E t \in Threads, op \in ReadOps : RCall(t, op)
    \/ \E t \in Threads : RNormalize(t)
    \/ \E t \in Threads : RReturn(t)
    \/ \E t \in Threads : RJoin(t)
    \/ AllIdle /\ PGetBase
    \/ AllIdle /\ \E b \in ScalarOperands : PMulBase(b)
    \/ AllIdle /\ \E that \in ThatOperands : PAddAssign(that)

SpecReaders == Init /\ [][NextReaders]_vars

Next == NextScalar \/ NextPoint \/ NextSchnorr

Spec == Init /\ [][Next]_vars

(***************************************************************************)
(* Properties                                                              *)
(***************************************************************************)
\* a Point whose group element passes ecc_point_validate
Validated(pe) == ecc_point_validate(point_setup(eccnorm(pe)))

ArithmeticStep(i, j, k) == SAdd(i, j, k) \/ SSub(i, j, k) \/ SMul(i, j, k) \/ SDiv(i, j, k)

\* C1 as stated: every Scalar obtainable through a public constructor or
\* operation, Point::getOrder() included, has a value v with 0 <= v < L.
C1_EveryScalarInRange == \A i \in Slots : InRange(sc[i])

\* C1 amended: a Scalar built by Scalar(uint32), Scalar(raw bytes),
\* fromString, getZero or Sanitize, and the result of +, -, *, /, invert or
\* negate on operands that are in range, has a value v with 0 <= v < L;
\* Point::getOrder() returns the value L itself, which is not in range.
C1_InRangeExceptOrder ==
    [][/\ last'.op \in {"Scalar(uint32_t)", "Scalar(EccDataType)",
                        "Scalar::getZero", "Scalar::Sanitize"}
            => InRange(sc'[last'.dst])
       /\ (last'.op = "Scalar::fromString" /\ exc' = "none")
            => InRange(sc'[last'.dst])
       /\ \A i, j, k \in Slots :
            (/\ last'.op \in {"Scalar+", "Scalar-", "Scalar*", "Scalar/"}
             /\ last'.dst = i
             /\ exc' = "none"
             /\ InRange(sc[j]) /\ InRange(sc[k])
             /\ ArithmeticStep(i, j, k))
                => InRange(sc'[i])
       /\ \A i, j \in Slots :
            (/\ last'.op \in {"Scalar::invert", "Scalar::negate"}
             /\ last'.dst = i
             /\ exc' = "none"
             /\ InRange(sc[j])
             /\ (SInvert(i, j) \/ SNegate(i, j)))
                => InRange(sc'[i])
       /\ \A i \in Slots :
            (last'.op = "Point::getOrder" /\ SGetOrder(i))
                => (IsInt(sc'[i], L) /\ ~InRange(sc'[i]))]_vars

\* a raw value of 200 was reduced into object 1 while object 2 holds the order
C1_Witness ==
    /\ last.op = "Scalar(EccDataType)"
    /\ last.dst = 1
    /\ IsInt(sc[1], 200 % L)
    /\ sc[2] = Point_getOrder

\* C2: after any sequence of public Point operations, caught errors
\* included, the live Point holds a group element that passes validation.
C2_LivePointValidated == Validated(pt)

\* C3: signing a non-empty message succeeds, and verifying the signature
\* against Point::mulBase(sk) and the same message returns true.
C3_SignThenVerify ==
    (last.op = "SchnorrQSign" /\ Len(last.msg) > 0)
        => /\ exc = "none"
           /\ last.ret
           /\ SchnorrQVerify(Point_mulBase(last.sk).pe, last.msg, sig).ret

\* a one-byte message was signed under the secret key 3
C3_Witness ==
    /\ last.op = "SchnorrQSign"
    /\ last.msg = <<1>>
    /\ last.sk = Scalar_uint(3)
    /\ last.ret
    /\ sig # ZeroSig

\* C5: SchnorrQSign on the empty message returns false, raises nothing and
\* does not call the backend signing primitive.
C5_EmptyMessageRejected ==
    (last.op = "SchnorrQSign" /\ Len(last.msg) = 0)
        => /\ ~last.ret
           /\ exc = "none"
           /\ last.call.fn = "none"

\* the empty message was handed to SchnorrQSign under the secret key 3
C5_Witness ==
    /\ last.op = "SchnorrQSign"
    /\ last.msg = <<>>
    /\ last.sk = Scalar_uint(3)
    /\ ~last.ret

\* C6: SchnorrQVerify raises nothing, and returns true exactly when the
\* backend call reports success and set the validity flag.
C6_VerifyOutcome ==
    last.op = "SchnorrQVerify"
        => /\ exc = "none"
           /\ last.ret <=> (last.call.status = ECCRYPTO_SUCCESS /\ last.call.valid # 0)

\* the backend succeeded on the empty message but left the flag clear
C6_Witness ==
    /\ last.op = "SchnorrQVerify"
    /\ last.msg = <<>>
    /\ last.call.status = ECCRYPTO_SUCCESS
    /\ last.call.valid = 0
    /\ ~last.ret

\* C7: when SchnorrQSign calls the backend, the public key bytes are those
\* of Point::mulBase(secretKey).getRaw() and the secret bytes those of
\* secretKey.getRaw().
C7_SignPassesDerivedKey ==
    last.call.fn = "sign"
        => /\ last.call.pk = Point_getRaw(Point_mulBase(last.sk).pe)
           /\ last.call.sk = Scalar_getRaw(last.sk)

\* the backend was called for the secret key 5, whose public key is not the
\* encoding of the secret
C7_Witness ==
    /\ last.op = "SchnorrQSign"
    /\ last.call.fn = "sign"
    /\ last.sk = Scalar_uint(5)
    /\ last.call.sk = BytesOf(5, 0)
    /\ last.call.pk # last.call.sk

\* C8: for every Scalar a, Point::mulBase(a) and a * Point::getBase() have
\* the same getRaw(); a = 0 gives the identity and a = 1 the generator.
C8_MulBaseIsMulOfBase ==
    last.op = "Point::mulBase" =>
        LET a    == last.args[1]
            slow == Point_mul(a, Point_getBase)
        IN  /\ exc = "none"
            /\ slow.exc = "none"
            /\ Point_getRaw(pt) = Point_getRaw(slow.pe)
            /\ a = Scalar_uint(0) => Point_getRaw(pt) = encode(AffineIdentity)
            /\ a = Scalar_uint(1) => Point_getRaw(pt) = encode(AffineGenerator)

\* mulBase produced the point 3 * G
C8_Witness ==
    /\ last.op = "Point::mulBase"
    /\ last.args = <<Scalar_uint(3)>>
    /\ exc = "none"
    /\ Point_getRaw(pt) = encode(AffMulRep(3, AffineGenerator))

\* C9: for every Point P and Scalars mG, mP, P.MulAdd(mG, mP) has the same
\* getRaw() as Point::mulBase(mG) + mP * P.
C9_MulAddIsSumOfProducts ==
    [][last'.op = "Point::MulAdd" =>
         LET fixed == Point_mulBase(last'.args[1])
             var   == Point_mul(last'.args[2], pt)
         IN  /\ exc' = "none" <=> (fixed.exc = "none" /\ var.exc = "none")
             /\ exc' = "none" =>
                  Point_getRaw(pt') = Point_getRaw(Point_add(fixed.pe, var.pe))]_vars

\* MulAdd(1, 2) on 2 * G returned the point 5 * G
C9_Witness ==
    /\ last.op = "Point::MulAdd"
    /\ last.args = <<Scalar_uint(1), Scalar_uint(2)>>
    /\ exc = "none"
    /\ Point_getRaw(pt) = encode(AffMulRep(5, AffineGenerator))

\* the Points a valid Point is compared with: affine and non-affine holders
ComparedPoints ==
    FreshPoints
        \cup {Point_add(p, q) : p, q \in FreshPoints}

C11_PointRoundTrip ==
    Validated(pt) =>
        /\ \A stale \in StalePoints :
               LET r == Point_fromString(Point_default, Point_toString(pt), stale)
               IN  /\ r.exc = "none"
                   /\ Point_getRaw(r.pe) = Point_getRaw(pt)
        /\ LET q == Point_raw(Point_getRaw(pt))
           IN  /\ q.exc = "none"
               /\ Point_getRaw(q.pe) = Point_getRaw(pt)

\* a valid Point other than the identity and the base point, left by an addition
C11_Witness ==
    /\ last.op = "Point+="
    /\ Validated(pt)
    /\ ~Point_isZero(pt)
    /\ Point_getRaw(pt) # Point_getRaw(Point_getBase)
    /\ Point_getRaw(pt)[ECC_KEY_LENGTH] = 128

\* C12: the toString() of a valid Scalar is 64 lower-case hex characters, the
\* k-th pair being the k-th byte of the little-endian memory image (the value
\* 5 prints as "05" followed by zeros), and fromString of that string gives
\* a Scalar equal to the first.
C12_ScalarRoundTrip ==
    \A i \in Slots :
        InRange(sc[i]) =>
            LET str == Scalar_toString(sc[i])
                mem == MemBytes(sc[i])
                r == Scalar_fromString(Scalar_getZero, str)
            IN  /\ Len(str) = 2 * ECC_KEY_LENGTH
                /\ \A k \in 1..ECC_KEY_LENGTH :
                       /\ str[2 * k - 1] = LowerHex[(mem[k] \div 16) + 1]
                       /\ str[2 * k] = LowerHex[(mem[k] % 16) + 1]
                /\ IsInt(sc[i], 5) => str[1] = "0" /\ str[2] = "5"
                /\ r.exc = "none"
                /\ Scalar_eq(r.b, sc[i])

\* the value 5 and the value L - 1 as live Scalars
C12_Witness ==
    /\ last.op = "Scalar(uint32_t)"
    /\ IsInt(sc[1], 5)
    /\ IsInt(sc[2], L - 1)

\* 256^k modulo L
RECURSIVE Pow256ModL(_)
Pow256ModL(k) == IF k = 0 THEN 1 ELSE (256 * Pow256ModL(k - 1)) % L

\* the little-endian number a 32-byte buffer denotes, modulo L
RECURSIVE LittleEndianModL(_, _)
LittleEndianModL(bytes, k) ==
    IF k > ECC_KEY_LENGTH THEN 0
    ELSE (bytes[k] * Pow256ModL(k - 1) + LittleEndianModL(bytes, k + 1)) % L

\* the little-endian number a 32-byte buffer denotes is at least L
AtLeastL(bytes) == bytes[1] >= L \/ \E k \in 2..ECC_KEY_LENGTH : bytes[k] # 0

\* 64 characters, each a hex digit of either case
WellFormedHex(str) ==
    /\ Len(str) = 2 * ECC_KEY_LENGTH
    /\ \A k \in 1..Len(str) : str[k] \in HexChars

\* C13: Scalar::fromString on a well-formed string whose little-endian value
\* v is at least L raises nothing and leaves the Scalar with value v mod L
\* (the string for L + 2 gives 2); the constructor from 32 raw bytes reduces
\* the same way.
C13_SilentReduction ==
    /\ (last.op = "Scalar::fromString" /\ WellFormedHex(last.args[1])
            /\ AtLeastL(hex_string_to_bytes(last.args[1]).out)) =>
           /\ exc = "none"
           /\ IsInt(sc[last.dst],
                    LittleEndianModL(hex_string_to_bytes(last.args[1]).out, 1))
           /\ last.args[1] = bytes_to_hex_string(BytesOf(L + 2, 0)) =>
                  IsInt(sc[last.dst], 2)
    /\ (last.op = "Scalar(EccDataType)" /\ AtLeastL(last.args[1])) =>
           /\ exc = "none"
           /\ IsInt(sc[last.dst], LittleEndianModL(last.args[1], 1))
           /\ last.args[1] = BytesOf(200, 0) => IsInt(sc[last.dst], 200 % L)

\* the string for L + 2 has just been parsed
C13_Witness ==
    /\ last.op = "Scalar::fromString"
    /\ last.args[1] = bytes_to_hex_string(BytesOf(L + 2, 0))
    /\ AtLeastL(hex_string_to_bytes(last.args[1]).out)
    /\ exc = "none"
    /\ IsInt(sc[last.dst], 2)

\* the last operation was a string parse of an input of the wrong length or
\* with a character that is no hex digit
FormatFailure ==
    /\ last.op \in {"Scalar::fromString", "Point::fromString"}
    /\ ~WellFormedHex(last.args[1])

\* C14: both parsers report a wrong-length input and a non-hex input with
\* one error kind, and that kind is not the one validation and arithmetic
\* failures are reported with.  Division, inversion and the constructor from
\* bytes raise std::runtime_error or nothing, and so does a parse of a
\* well-formed string; a format failure raises something else, which with
\* the two kinds the program throws makes it std::invalid_argument each time.
C14_FormatErrorKindDistinct ==
    /\ last.op \in {"Scalar/", "Scalar::invert", "Point(EccDataType)"} =>
           exc \in {"none", "runtime_error"}
    /\ (last.op \in {"Scalar::fromString", "Point::fromString"}
            /\ WellFormedHex(last.args[1])) =>
           exc \in {"none", "runtime_error"}
    /\ FormatFailure => exc \notin {"none", "runtime_error"}

\* C15: on a well-formed string Point::fromString does what the constructor
\* from bytes does on the reversed parsed bytes: it raises exactly when the
\* constructor raises (decode rejects, or validation fails), with the same
\* kind, and otherwise leaves the same Point.
C15_FromStringAsRawConstructor ==
    (last.op \in {"Point::fromString", "Point(string)"}
        /\ WellFormedHex(last.args[1])) =>
       LET raw == Point_raw(reverse_bytes(hex_string_to_bytes(last.args[1]).out))
       IN  /\ exc = raw.exc
           /\ exc = "none" => pt = raw.pe

\* the number a Scalar's memory image denotes, modulo L
NumModL(w) == LittleEndianModL(MemBytes(w), 1)

\* C16: for all live Scalars a and b with b.isZero() false, (a * b) / b == a,
\* b / b == Scalar(1) and invert(b) * b == Scalar(1), none of them raising,
\* and the product is the plain product modulo L.
C16_MulDivRoundTrip ==
    \A j, k \in Slots :
        ~Scalar_isZero(sc[k]) =>
            LET a == sc[j]
                b == sc[k]
                q == Scalar_div(Scalar_mul(a, b), b)
                one == Scalar_div(b, b)
                inv == Scalar_invert(b)
            IN  /\ q.exc = "none" /\ Scalar_eq(q.b, a)
                /\ one.exc = "none" /\ Scalar_eq(one.b, Scalar_uint(1))
                /\ inv.exc = "none" /\ Scalar_eq(Scalar_mul(inv.b, b), Scalar_uint(1))
                /\ IsInt(Scalar_mul(a, b), (NumModL(a) * NumModL(b)) % L)

\* C17: a / b and invert(b) raise exactly when b is zero modulo L, whatever
\* the dividend, and then leave no result in the destination.
C17_ZeroDivisorRaises ==
    [][\A i, j \in Slots :
          /\ \A k \in Slots :
                 (last'.op = "Scalar/" /\ last'.dst = i /\ SDiv(i, j, k)) =>
                     /\ (exc' = "runtime_error") <=> (NumModL(sc[k]) = 0)
                     /\ exc' # "none" => sc'[i] = sc[i]
          /\ (last'.op = "Scalar::invert" /\ last'.dst = i /\ SInvert(i, j)) =>
                 /\ (exc' = "runtime_error") <=> (NumModL(sc[j]) = 0)
                 /\ exc' # "none" => sc'[i] = sc[i]]_vars

\* the additive identities of the claim for one pair of Scalars
AdditiveLaws(a, b) ==
    /\ Scalar_eq(Scalar_sub(Scalar_add(a, b), b), a)
    /\ Scalar_eq(Scalar_add(Scalar_sub(a, b), b), a)
    /\ Scalar_isZero(Scalar_add(a, Scalar_negate(a)))
    /\ Scalar_eq(Scalar_negate(Scalar_negate(a)), a)
    /\ Scalar_eq(Scalar_negate(Scalar_getZero), Scalar_getZero)
    /\ InRange(Scalar_add(a, b))
    /\ InRange(Scalar_sub(a, b))
    /\ InRange(Scalar_negate(a))

\* C18 as stated: for all live Scalars a and b, (a + b) - b == a,
\* (a - b) + b == a, a + negate(a) is zero, negate(negate(a)) == a,
\* negate(zero) == zero, and every result is in [0, L).
C18_AdditiveLawsAllScalars ==
    \A j, k \in Slots : AdditiveLaws(sc[j], sc[k])

\* C18 amended: the same identities for all live Scalars a and b whose value
\* is in [0, L).
C18_AdditiveLawsInRange ==
    \A j, k \in Slots :
        (InRange(sc[j]) /\ InRange(sc[k])) => AdditiveLaws(sc[j], sc[k])

\* 5 and its negation L - 5 as live Scalars, the sum of which wraps
C18_Witness ==
    /\ last.op = "Scalar::negate"
    /\ last.dst = 2
    /\ IsInt(sc[1], 5)
    /\ IsInt(sc[2], L - 5)

\* a valid Point: its affine form passes validation and its extended
\* coordinates are those of one projective point, Ta * Tb = X * Y / Z
ValidPoint(pe) ==
    /\ Validated(pe)
    /\ fpmul(fpmul(pe.ta, pe.tb), pe.z) = fpmul(pe.x, pe.y)

\* C19: for every valid live Point P, P + getZero() == P, P - P == getZero(),
\* P + negate(P) is the identity, negate(negate(P)) == P, negate(identity)
\* is the identity, none of them raising; negate of a non-identity P is
\* (L - 1) * P, the point with the opposite x and the same y.
C19_PointAdditiveLaws ==
    ValidPoint(pt) =>
        LET P == pt
            diff == Point_sub(P, P)
            n == Point_negate(P)
            nn == Point_negate(n.pe)
            nz == Point_negate(Point_getZero)
            a == eccnorm(P)
        IN  /\ Point_eq(Point_add(P, Point_getZero), P)
            /\ diff.exc = "none" /\ Point_eq(diff.pe, Point_getZero)
            /\ n.exc = "none" /\ Point_isZero(Point_add(P, n.pe))
            /\ nn.exc = "none" /\ Point_eq(nn.pe, P)
            /\ nz.exc = "none" /\ Point_isZero(nz.pe)
            /\ ~Point_isZero(P) =>
                   /\ Point_eq(n.pe, Point_mul(Scalar_uint(L - 1), P).pe)
                   /\ eccnorm(n.pe) = [x |-> (FIELD_P - a.x) % FIELD_P, y |-> a.y]

\* a valid Point that is neither the identity nor the base point has just
\* been negated
C19_Witness ==
    /\ last.op = "Point::negate"
    /\ exc = "none"
    /\ ValidPoint(pt)
    /\ ~Point_isZero(pt)
    /\ ~Point_eq(pt, Point_getBase)
    /\ ~Point_eq(pt, Point_negate(Point_getBase).pe)

\* C20: outside construction and parsing from bytes or hex, and the backend
\* failures of *=, Scalar * Point and MulAdd, no Point operation raises:
\* mulBase, negate, -, -=, +, += and the operations that only copy or build
\* a constant return normally whatever live Point they are applied to.
C20_NoOtherOperationRaises ==
    last.op \in {"Point::mulBase", "Point::negate", "Point-", "Point-=",
                 "Point+", "Point+=", "Point()", "Point::operator=",
                 "Point::getBase", "Point::getZero"} =>
        exc = "none"

\* what the same call returns when nothing else runs
Sequential(op, pe) ==
    CASE op = "Point::getRaw" -> Point_getRaw(pe)
      [] op = "Point::toString" -> Point_toString(pe)
      [] op = "Point::isZero" -> Point_isZero(pe)
      [] op = "Point::MulAdd" -> Point_MulAdd(pe, ReadMulAddG, ReadMulAddP)
      [] op = "Point==" -> Point_eq(pe, ComparedWith)
      [] op = "Point!=" -> Point_ne(pe, ComparedWith)
      [] op = "Point<" -> Point_lt(pe, ComparedWith)

\* C21: no step of getRaw, toString, isZero, MulAdd, ==, != or < writes the
\* Point it is called on, and with any number of such calls interleaved on
\* the same Point, no assignment running, each returns what it returns when
\* run alone.
C21_ReadersDoNotWrite ==
    /\ [][rd' # rd => pt' = pt]_vars
    /\ [](\A t \in Threads :
             rd[t].pc = "done" => rd[t].ret = <<Sequential(rd[t].op, pt)>>)

\* two calls overlap on a Point in projective form: one has returned while
\* the other still holds its copy
C21_Witness ==
    /\ pt.z # 1
    /\ rd[1].pc = "done" /\ rd[1].op = "Point::getRaw"
    /\ rd[2].pc = "copied" /\ rd[2].op = "Point::isZero"

\* C22: +, - and Scalar * Point leave both operands as they were, += and -=
\* leave their right-hand operand as it was, and with the receiver as the
\* right-hand operand p += p leaves Scalar(2) * p_old and p -= p leaves the
\* identity.
C22_OperandsUnchanged ==
    /\ \A that \in ThatOperands :
           /\ operator_plus(pt, that).lh = pt /\ operator_plus(pt, that).rh = that
           /\ operator_minus(pt, that).lh = pt /\ operator_minus(pt, that).rh = that
           /\ operator_plus_assign(that, pt).that = pt
           /\ operator_minus_assign(that, pt).that = pt
    /\ \A b \in MulAddScalars :
           operator_times(b, pt).ep = pt /\ operator_times(b, pt).b = b
    /\ LET twice == operator_times(Scalar_uint(2), pt)
           dbl == operator_plus_assign(pt, pt)
           nil == operator_minus_assign(pt, pt)
       IN  /\ twice.exc = "none" /\ Point_eq(dbl.this, twice.ret)
           /\ nil.exc = "none" /\ Point_eq(nil.this, Point_getZero)

\* C23: when Point *= raises because the backend multiplication reports
\* failure, the receiver is exactly what it was before the call, and so is
\* its getRaw().
C23_MulAssignErrorKeepsReceiver ==
    [][(last'.op = "Point*=" /\ exc' = "runtime_error") =>
          /\ pt' = pt
          /\ Point_getRaw(pt') = Point_getRaw(pt)]_vars

\* C24: whenever SchnorrQSign or SchnorrQVerify calls the backend, the
\* length it passes is the number of bytes of the message, and the signing
\* primitive is never called with length 0.
C24_LengthIsByteCount ==
    last.call.fn \in {"sign", "verify"} =>
        /\ last.call.len = Len(last.msg)
        /\ last.call.fn = "sign" => last.call.len # 0

\* C25: for every live Point P, P.isZero() exactly when P == getZero(); the
\* default Point, getZero(), mulBase(zero), zero * P and s * identity are
\* zero by both tests and the base point by neither.
C25_IsZeroIffEqualsZero ==
    /\ Point_isZero(pt) <=> Point_eq(pt, Point_getZero)
    /\ \A z \in {Point_default, Point_getZero, Point_mulBase(Scalar_getZero).pe} :
           Point_isZero(z) /\ Point_eq(z, Point_getZero)
    /\ \A s \in ScalarOperands :
           LET r == operator_times(s, Point_getZero)
           IN  r.exc = "none" /\ Point_isZero(r.ret) /\ Point_eq(r.ret, Point_getZero)
    /\ ~Point_isZero(Point_getBase) /\ ~Point_eq(Point_getBase, Point_getZero)
    /\ LET r == operator_times(Scalar_getZero, pt)
       IN  r.exc = "none" /\ Point_isZero(r.ret) /\ Point_eq(r.ret, Point_getZero)

====
